---------------------------- MODULE Spec2Model ----------------------------
(***************************************************************************)
(* A model of the Ravelry crawler.                                         *)
(*                                                                         *)
(*   Spec        main.py: find_projects_and_yarns with its checkpoint      *)
(*               files, per-pattern yarn files and final output file, run, *)
(*               killed and re-invoked against a fixed server listing.     *)
(*   ClientSpec  api/client.py: RavelryClient._check_rate_limit and        *)
(*               _make_request (with its tenacity retry decorator) on a    *)
(*               discrete clock.                                           *)
(*   PaginateSpec  api/client.py: the generator RavelryClient.paginate and *)
(*               a consumer that pulls its items or stops.                 *)
(*   SaveSpec    api/client.py: RavelryClient._save_checkpoint, with       *)
(*               errors and process terminations.                          *)
(*   RoundTripSpec  main.py: completed_projects through save_checkpoint,   *)
(*               load_checkpoint and the list-to-set normalisation.        *)
(*   DownloadSpec  api/client.py: RavelryClient.download_pattern_projects  *)
(*               called again and again with one checkpoint file.          *)
(*   YarnSpec    main.py: collect_yarn_data's loop over the packs of one   *)
(*               project.                                                  *)
(*   PaginateFairSpec  PaginateSpec with a consumer that keeps pulling.    *)
(*                                                                         *)
(* A file is [st, data]: st is "absent", "ok" (a complete JSON document,   *)
(* held in data) or "torn" (open(..., 'w') has truncated it and the dump   *)
(* was not finished: json.load raises on it).                              *)
(***************************************************************************)
EXTENDS Integers, Sequences, FiniteSets, TLC

VARIABLES
    \* ---- the server (fixed during a behaviour)
    pattern_listing,      \* pages of the pattern search: Seq(Seq(permalink))
    project_listing,      \* permalink -> pages of the project search
    \* ---- the disk
    ckpt_file,            \* CHECKPOINT_FILE
    yarn_ckpt_file,       \* YARN_CHECKPOINT_FILE
    yarn_files,           \* permalink -> STORED_PATTERNS/<permalink>.json
    output_file,          \* rc.STORED_PROJECTS
    \* ---- the process (memory of the current invocation)
    pc,
    checkpoint,           \* find_projects_and_yarns: checkpoint
    yarn_checkpoint,      \* find_projects_and_yarns: yarn_checkpoint['yarn_collection']
    start_idx,            \* find_projects_and_yarns: start_idx
    idx,                  \* find_projects_and_yarns: idx of the enumerate
    current_page,         \* collect_*: current_page
    total_pages,          \* collect_*: total_pages
    proj_i,               \* position of the for loop in projects_data['projects']
    stored_json_this_pattern_projects,
    pattern_group_project_yarns,
    existing_project_ids,
    \* ---- history (what the claims speak about; never read by the program)
    runs,                 \* invocations so far
    last_exit,            \* how the last invocation ended
    calls,                \* network requests issued by the current invocation
    detail_fetches,       \* detail requests issued for the current pattern
    begun,                \* facts recorded when the current pattern was begun
    interrupted,          \* the pattern the last invocation died in, or "None"
    first_output,         \* the output file as the first complete run left it
    pages_requested,      \* pattern pages requested by the last listing session
    fetched_details,      \* ids whose detail the invocation has fetched
    fetched_before,       \* ids whose detail the invocation before had fetched
    repeated,             \* ids of fetched_before the invocation has requested
    resumes,              \* how the invocation before the current one ended
    \* ---- RavelryClient
    rate_limit_calls,     \* attribute rate_limit_calls
    rate_limit_period,    \* attribute rate_limit_period
    last_calls,           \* attribute _last_calls
    clock,                \* time.time(), in whole seconds
    rpc,                  \* where _make_request (with its retry wrapper) stands
    attempt_number,       \* tenacity's attempt number of the current request
    \* ---- history of the client
    issued,               \* the times at which _check_rate_limit returned
    outcomes,             \* what each transport call of the current request met
    waits,                \* the delays slept between the attempts of the request
    requests,             \* requests made so far
    \* ---- RavelryClient.paginate: one generator and its consumer
    pg_listing,           \* the server's listing: Seq(Seq(item))
    max_pages,            \* argument max_pages (None or a number)
    gen,                  \* where the generator stands
    pg_page,              \* paginate: page
    pg_total_pages,       \* paginate: total_pages
    response,             \* paginate: response.get(data_key, []) of the last fetch
    item_i,               \* items of response yielded so far
    \* ---- history of the generator
    yielded,              \* the items the consumer has received
    fetched,              \* the pages requested through _make_request, in order
    failed,               \* the page whose request raised, or 0
    reported_pages,       \* the page_count of the last response, or None
    \* ---- RavelryClient._save_checkpoint
    checkpoint_file,      \* the file checkpoint_file
    temp_file,            \* the file checkpoint_file.with_suffix('.tmp')
    spc,                  \* where _save_checkpoint stands
    sv_data,              \* argument data
    \* ---- history of the saves
    previous,             \* checkpoint_file when the current save was called
    saves,                \* saves called so far
    \* ---- completed_projects on its way to the disk and back
    rt_set,               \* the set S the process started with
    rt_memory,            \* yarn_checkpoint['yarn_collection']['completed_projects']
    rt_file,              \* "completed_projects" in the checkpoint file
    rt_pc,                \* "fresh", "saved" or "loaded"
    \* ---- RavelryClient.download_pattern_projects
    dl_patterns,          \* argument patterns (their permalinks)
    dl_listing,           \* the server: permalink -> the projects of the pattern
    max_projects_per_pattern, \* argument of that name (None or a number)
    dl_file,              \* the file checkpoint_file
    dpc,                  \* where download_pattern_projects stands
    dl_idx,               \* download_pattern_projects: idx
    dl_results,           \* download_pattern_projects: results
    \* ---- history of the downloads
    dl_fetched,           \* the indexes whose projects the current call fetched
    dl_failed,            \* the index at which the last call failed, or -1
    dl_resumed,           \* the index at which the call before failed, or -1
    dl_returned,          \* the last call has returned its results
    dl_calls,             \* calls so far
    \* ---- collect_yarn_data: the loop over the packs of one project
    packs,                \* json_parsed['packs']
    yarn_data,            \* project_yarn_data['yarn_data']
    pack_i,               \* position of the for loop in packs
    ypc                   \* where collect_yarn_data stands

serverVars == <<pattern_listing, project_listing>>
diskVars   == <<ckpt_file, yarn_ckpt_file, yarn_files, output_file>>
memVars    == <<pc, checkpoint, yarn_checkpoint, start_idx, idx, current_page,
                total_pages, proj_i, stored_json_this_pattern_projects,
                pattern_group_project_yarns, existing_project_ids>>
histVars   == <<runs, last_exit, calls, detail_fetches, begun, interrupted,
                first_output, pages_requested>>
lossVars   == <<fetched_details, fetched_before, repeated, resumes>>
crawlVars  == <<serverVars, diskVars, memVars, histVars, lossVars>>
clientVars == <<rate_limit_calls, rate_limit_period, last_calls, clock, rpc,
                attempt_number, issued, outcomes, waits, requests>>
pageVars   == <<pg_listing, max_pages, gen, pg_page, pg_total_pages, response,
                item_i, yielded, fetched, failed, reported_pages>>
saveVars   == <<checkpoint_file, temp_file, spc, sv_data, previous, saves>>
rtVars     == <<rt_set, rt_memory, rt_file, rt_pc>>
dlVars     == <<dl_patterns, dl_listing, max_projects_per_pattern, dl_file,
                dpc, dl_idx, dl_results,
                dl_fetched, dl_failed, dl_resumed, dl_returned, dl_calls>>
yarnVars   == <<packs, yarn_data, pack_i, ypc>>
toolVars   == <<rtVars, dlVars, yarnVars>>
libVars    == <<pageVars, saveVars, toolVars>>
vars       == <<crawlVars, clientVars, libVars>>

---------------------------------------------------------------------------
(* Bounds and program constants *)

MaxRuns == 3

MaxRateCalls  == 2     \* rate_limit_calls is drawn from 1..MaxRateCalls
MaxRatePeriod == 3     \* rate_limit_period is drawn from 1..MaxRatePeriod
MaxClock      == 4     \* the caller lets time pass up to this instant
MaxOversleep  == 1     \* time.sleep may return this much late
MaxIssued     == 5     \* calls of _check_rate_limit in a behaviour
MaxPages      == 3     \* pages of a listing given to paginate
MaxPageSize   == 2     \* items on a page of that listing
MaxMaxPages   == 4     \* the argument max_pages is None or in 0..MaxMaxPages
MaxSaves      == 3     \* calls of _save_checkpoint in a behaviour
MaxData       == 2     \* the argument data is one of the documents 1..MaxData
MaxDlCalls    == 3     \* calls of download_pattern_projects in a behaviour
MaxDlProjects == 2     \* projects of a pattern given to download_pattern_projects
MaxMaxProjects == 2    \* max_projects_per_pattern is None or in 0..MaxMaxProjects
MaxPacks      == 3     \* packs of a project given to collect_yarn_data
MaxPackId     == 2     \* the id of a pack is None or in 1..MaxPackId

PROJECT_PAGINATION_LIMIT == 5
PATTERN_PAGINATION_LIMIT == 5
PAGE_SIZE == 100       \* search_projects: page_size: int = 100

---------------------------------------------------------------------------
(* Helpers *)

Min(a, b) == IF a <= b THEN a ELSE b

Range(s) == {s[i] : i \in 1..Len(s)}

RECURSIVE Flatten(_)
Flatten(pages) ==
    IF pages = <<>> THEN <<>> ELSE Head(pages) \o Flatten(Tail(pages))

NoDuplicates(s) == \A i, j \in 1..Len(s) : s[i] = s[j] => i = j

\* list(a_set): the members in some order, each once
RECURSIVE SetToList(_)
SetToList(S) ==
    IF S = {} THEN <<>>
    ELSE LET x == CHOOSE y \in S : TRUE IN <<x>> \o SetToList(S \ {x})

\* a conversion that keeps the first key only
ListToSetFirst(l) == IF l = <<>> THEN {} ELSE {l[1]}

\* set(a_list)
ListToSet(l) == Range(l)

---------------------------------------------------------------------------
(* The server *)

Permalinks == {"a", "b"}

S42 == [name |-> "Sweater", id |-> 42]
S43 == [name |-> "Sweater", id |-> 43]
H7  == [name |-> "Hat_1",   id |-> 7]

PatternListings ==
    { << <<>> >>,
      << <<"a">> >>,
      << <<"a">>, <<"b">> >> }

ProjectListings ==
    { [a |-> << <<S42, S43>> >>,          b |-> << <<H7>> >>],
      [a |-> << <<S42>>, <<S42, S43>> >>, b |-> << <<>> >>] }

\* the projects a full crawl of a pattern meets: the pages up to the limit
ListedProjects(p) ==
    LET pages == project_listing[p]
    IN  Range(Flatten(SubSeq(pages, 1, Min(Len(pages), PROJECT_PAGINATION_LIMIT))))

\* the patterns a full, uninterrupted listing stores
FullPatternList ==
    Flatten(SubSeq(pattern_listing, 1,
                   Min(Len(pattern_listing), PATTERN_PAGINATION_LIMIT)))

---------------------------------------------------------------------------
(* Files *)

Absent(d) == [st |-> "absent", data |-> d]
Torn(d)   == [st |-> "torn",   data |-> d]
Ok(d)     == [st |-> "ok",     data |-> d]

\* load_checkpoint's default, pattern-level fields
DefaultCheckpoint ==
    [patterns_completed |-> FALSE,
     patterns_page      |-> 1,
     stored_patterns    |-> <<>>,
     stored_projects    |-> <<>>,
     last_pattern_index |-> -1]

\* load_checkpoint's default, 'yarn_collection' (as the loaded, normalised value)
DefaultYarnCollection ==
    [completed_patterns   |-> <<>>,
     completed_projects   |-> {},
     current_pattern      |-> "None",
     current_project_page |-> 1]

\* the 'yarn_collection' object as save_checkpoint dumps it: the set as a list
DumpYarnCollection(yc) ==
    [completed_patterns   |-> yc.completed_patterns,
     completed_projects   |-> SetToList(yc.completed_projects),
     current_pattern      |-> yc.current_pattern,
     current_project_page |-> yc.current_project_page]

\* load_checkpoint followed by the list-to-set normalisation
LoadYarnCollection(d) ==
    [completed_patterns   |-> d.completed_patterns,
     completed_projects   |-> ListToSet(d.completed_projects),
     current_pattern      |-> d.current_pattern,
     current_project_page |-> d.current_project_page]

NoYarnData == <<>>

\* project_unique_id = f"{project['name']}_{project['id']}"
UniqueKey(project) == project.name \o "_" \o ToString(project.id)

\* the record collect_yarn_data returns for a project
YarnRecord(project) == [project_id |-> project.id]


\* the basic record appended to stored_json_this_pattern_projects
BasicRecord(project) == [id |-> project.id, name |-> project.name]

YarnDump(yc) == Ok(DumpYarnCollection(yc))

---------------------------------------------------------------------------
(* The state of find_projects_and_yarns *)

HasItem == start_idx + idx + 1 <= Len(checkpoint.stored_patterns)

\* item['permalink'] of the enumerate over patterns[start_idx:]
Item == checkpoint.stored_patterns[start_idx + idx + 1]

PatternPcs == {"page_start", "project", "project_save", "pattern_finish",
               "pattern_finish_yarn", "fail_inner_yarn", "fail_outer_ckpt",
               "fail_outer_yarn"}

\* the pattern the process is working on, "None" outside the per-pattern body
InProgress == IF pc \in PatternPcs THEN Item ELSE "None"

\* projects_data['projects'] of the page the for loop walks
Page == project_listing[Item][current_page]

InPage == proj_i <= Len(Page)

Project == Page[proj_i]

YarnIds(records) == {records[i].project_id : i \in 1..Len(records)}

\* a skip test that consults completed_projects alone
ShouldSkipKeyOnly(project) ==
    UniqueKey(project) \in yarn_checkpoint.completed_projects

\* the skip test of collect_projects_for_pattern
ShouldSkip(project) ==
    \/ UniqueKey(project) \in yarn_checkpoint.completed_projects
    \/ project.id \in existing_project_ids

NoBegun == [resumed |-> FALSE, k |-> 0, clean |-> FALSE, ids |-> {}]

NoOutput == [set |-> FALSE, data |-> <<>>]

---------------------------------------------------------------------------
(* Initial state: nothing on disk, no process *)

IdleMemory ==
    /\ pc = "idle"
    /\ checkpoint = DefaultCheckpoint
    /\ yarn_checkpoint = DefaultYarnCollection
    /\ start_idx = 0
    /\ idx = 0
    /\ current_page = 1
    /\ total_pages = 0
    /\ proj_i = 1
    /\ stored_json_this_pattern_projects = <<>>
    /\ pattern_group_project_yarns = <<>>
    /\ existing_project_ids = {}

\* max_pages=None, total_pages = None
None == -1

\* no generator has been created
PaginateIdle ==
    /\ pg_listing = << <<>> >>
    /\ max_pages = None
    /\ gen = "none"
    /\ pg_page = 1
    /\ pg_total_pages = None
    /\ response = <<>>
    /\ item_i = 0
    /\ yielded = <<>>
    /\ fetched = <<>>
    /\ failed = 0
    /\ reported_pages = None

\* no checkpoint has been saved
SaveIdle ==
    /\ checkpoint_file = [st |-> "absent", data |-> 0]
    /\ temp_file = [st |-> "absent", data |-> 0]
    /\ spc = "idle"
    /\ sv_data = 0
    /\ previous = [st |-> "absent", data |-> 0]
    /\ saves = 0

\* a Python set, or a list, of project keys
PySet(S) == [is_set |-> TRUE, as_set |-> S, as_list |-> <<>>]
PyList(l) == [is_set |-> FALSE, as_set |-> {}, as_list |-> l]

\* no checkpoint is on its way
RoundTripIdle ==
    /\ rt_set = {}
    /\ rt_memory = PySet({})
    /\ rt_file = <<>>
    /\ rt_pc = "none"

\* the permalinks of the patterns given to download_pattern_projects
DlPermalinks == {"a", "b", "c"}

\* a key the dict results does not hold
Missing == [kind |-> "missing", items |-> <<>>]

\* results = {}
NoResults == [p \in DlPermalinks |-> Missing]

\* download_pattern_projects has not been called
DownloadIdle ==
    /\ dl_patterns = <<>>
    /\ dl_listing = [p \in DlPermalinks |-> <<>>]
    /\ max_projects_per_pattern = None
    /\ dl_file = [st |-> "absent", data |-> 0]
    /\ dpc = "idle"
    /\ dl_idx = 0
    /\ dl_results = NoResults
    /\ dl_fetched = <<>>
    /\ dl_failed = -1
    /\ dl_resumed = -1
    /\ dl_returned = FALSE
    /\ dl_calls = 0

\* collect_yarn_data has not been called
YarnIdle ==
    /\ packs = <<>>
    /\ yarn_data = <<>>
    /\ pack_i = 1
    /\ ypc = "idle"

ToolIdle == RoundTripIdle /\ DownloadIdle /\ YarnIdle

\* a client just constructed (rate_limit_calls=1, rate_limit_period=1), unused
ClientIdle ==
    /\ rate_limit_calls = 1
    /\ rate_limit_period = 1
    /\ last_calls = <<>>
    /\ clock = 0
    /\ rpc = "idle"
    /\ attempt_number = 0
    /\ issued = <<>>
    /\ outcomes = <<>>
    /\ waits = <<>>
    /\ requests = 0

Init ==
    /\ ClientIdle
    /\ PaginateIdle
    /\ SaveIdle
    /\ ToolIdle
    /\ pattern_listing \in PatternListings
    /\ project_listing \in ProjectListings
    /\ ckpt_file = Absent(DefaultCheckpoint)
    /\ yarn_ckpt_file = Absent(DumpYarnCollection(DefaultYarnCollection))
    /\ yarn_files = [p \in Permalinks |-> Absent(NoYarnData)]
    /\ output_file = Absent(<<>>)
    /\ IdleMemory
    /\ runs = 0
    /\ last_exit = "none"
    /\ calls = 0
    /\ detail_fetches = 0
    /\ begun = NoBegun
    /\ interrupted = "None"
    /\ first_output = NoOutput
    /\ pages_requested = <<>>
    /\ fetched_details = {}
    /\ fetched_before = {}
    /\ repeated = {}
    /\ resumes = "none"

\* the process is gone: its memory with it
Exit(how) ==
    /\ pc' = "idle"
    /\ checkpoint' = DefaultCheckpoint
    /\ yarn_checkpoint' = DefaultYarnCollection
    /\ start_idx' = 0
    /\ idx' = 0
    /\ current_page' = 1
    /\ total_pages' = 0
    /\ proj_i' = 1
    /\ stored_json_this_pattern_projects' = <<>>
    /\ pattern_group_project_yarns' = <<>>
    /\ existing_project_ids' = {}
    /\ last_exit' = how
    /\ interrupted' = IF how \in {"crashed", "failed"} THEN InProgress ELSE "None"
    /\ detail_fetches' = 0
    /\ begun' = NoBegun

---------------------------------------------------------------------------
(* find_projects_and_yarns, lines 223-236: a (re-)invocation loads both     *)
(* checkpoints; json.load raises on a torn file and the run ends there.     *)

Invoke ==
    /\ pc = "idle"
    /\ runs < MaxRuns
    /\ runs' = runs + 1
    /\ calls' = 0
    /\ fetched_before' = fetched_details
    /\ fetched_details' = {}
    /\ repeated' = {}
    /\ resumes' = last_exit
    /\ UNCHANGED <<clientVars, libVars, pages_requested, serverVars, diskVars,
                   first_output>>
    /\ IF ckpt_file.st = "torn" \/ yarn_ckpt_file.st = "torn"
       THEN /\ UNCHANGED <<memVars, interrupted, detail_fetches, begun>>
            /\ last_exit' = "load_failed"
       ELSE LET cp == IF ckpt_file.st = "ok" THEN ckpt_file.data
                      ELSE DefaultCheckpoint
                yc == IF yarn_ckpt_file.st = "ok"
                      THEN LoadYarnCollection(yarn_ckpt_file.data)
                      ELSE DefaultYarnCollection
            IN  /\ checkpoint' = cp
                /\ yarn_checkpoint' = yc
                /\ pc' = IF cp.patterns_completed THEN "pattern_loop"
                         ELSE "patterns_first"
                /\ start_idx' = cp.last_pattern_index + 1
                /\ idx' = 0
                /\ last_exit' = "running"
                /\ UNCHANGED <<current_page, total_pages, proj_i,
                               stored_json_this_pattern_projects,
                               pattern_group_project_yarns,
                   existing_project_ids,
                               interrupted, detail_fetches, begun>>

---------------------------------------------------------------------------
(* collect_all_patterns *)

\* lines 103-107: the first request, outside the try
PatternsFirstFetch ==
    /\ pc = "patterns_first"
    /\ calls' = calls + 1
    /\ pages_requested' = <<checkpoint.patterns_page>>
    /\ UNCHANGED <<clientVars, libVars, lossVars, serverVars, diskVars,
                   first_output>>
    /\ \/ /\ current_page' = checkpoint.patterns_page
          /\ total_pages' = Min(Len(pattern_listing), PATTERN_PAGINATION_LIMIT)
          /\ pc' = "patterns_loop"
          /\ UNCHANGED <<checkpoint, yarn_checkpoint, start_idx, idx, proj_i,
                         stored_json_this_pattern_projects,
                         pattern_group_project_yarns, existing_project_ids,
                         runs, last_exit, detail_fetches, begun, interrupted>>
       \/ /\ Exit("failed")
          /\ UNCHANGED runs

\* lines 112-138: one page ingested, the page number saved
PatternsPage ==
    /\ pc = "patterns_loop"
    /\ current_page <= total_pages
    /\ calls' = calls + (IF current_page > 1 THEN 1 ELSE 0)
    /\ pages_requested' = IF current_page > 1
                          THEN Append(pages_requested, current_page)
                          ELSE pages_requested
    /\ checkpoint' = [checkpoint EXCEPT
                        !.stored_patterns = @ \o pattern_listing[current_page],
                        !.patterns_page = current_page]
    /\ ckpt_file' = Ok(checkpoint')
    /\ current_page' = current_page + 1
    /\ UNCHANGED <<clientVars, libVars, lossVars, serverVars, yarn_ckpt_file,
                   yarn_files, output_file, pc,
                   yarn_checkpoint, start_idx, idx, total_pages, proj_i,
                   stored_json_this_pattern_projects,
                   pattern_group_project_yarns, existing_project_ids,
                   runs, last_exit, detail_fetches, begun, interrupted,
                   first_output>>

\* lines 114-115, 140-143: the request of a later page fails
PatternsPageFail ==
    /\ pc = "patterns_loop"
    /\ current_page <= total_pages
    /\ current_page > 1
    /\ calls' = calls + 1
    /\ pages_requested' = Append(pages_requested, current_page)
    /\ ckpt_file' = Ok(checkpoint)
    /\ Exit("failed")
    /\ UNCHANGED <<clientVars, libVars, lossVars, serverVars, yarn_ckpt_file,
                   yarn_files, output_file, runs,
                   first_output>>

\* the loop ends; find_projects_and_yarns lines 241-246
PatternsComplete ==
    /\ pc = "patterns_loop"
    /\ current_page > total_pages
    /\ checkpoint' = [checkpoint EXCEPT !.patterns_completed = TRUE]
    /\ ckpt_file' = Ok(checkpoint')
    /\ start_idx' = checkpoint.last_pattern_index + 1
    /\ idx' = 0
    /\ pc' = "pattern_loop"
    /\ UNCHANGED <<clientVars, libVars, lossVars, pages_requested, serverVars,
                   yarn_ckpt_file, yarn_files, output_file,
                   yarn_checkpoint, current_page, total_pages, proj_i,
                   stored_json_this_pattern_projects,
                   pattern_group_project_yarns, existing_project_ids,
                   histVars>>

---------------------------------------------------------------------------
(* find_projects_and_yarns: the loop over patterns[start_idx:] *)

\* lines 255-256
PatternSkip ==
    /\ pc = "pattern_loop"
    /\ HasItem
    /\ Item \in Range(yarn_checkpoint.completed_patterns)
    /\ idx' = idx + 1
    /\ UNCHANGED <<clientVars, libVars, lossVars, pages_requested, serverVars,
                   diskVars, pc, checkpoint, yarn_checkpoint,
                   start_idx, current_page, total_pages, proj_i,
                   stored_json_this_pattern_projects,
                   pattern_group_project_yarns, existing_project_ids,
                   histVars>>

\* what the history keeps of the moment a pattern is begun
Begun(p, loaded) ==
    LET done == {q \in ListedProjects(p) :
                    /\ UniqueKey(q) \in yarn_checkpoint.completed_projects
                    /\ q.id \in YarnIds(loaded)}
    IN  [resumed |-> interrupted = p,
         k       |-> Cardinality(done),
         clean   |-> /\ NoDuplicates(loaded)
                     /\ YarnIds(loaded) = {q.id : q \in done},
         ids     |-> YarnIds(loaded)]

\* lines 259-263 and collect_projects_for_pattern lines 150-158
PatternBegin ==
    /\ pc = "pattern_loop"
    /\ HasItem
    /\ Item \notin Range(yarn_checkpoint.completed_patterns)
    /\ UNCHANGED <<clientVars, libVars, lossVars, pages_requested, serverVars,
                   diskVars, checkpoint, start_idx, idx, runs,
                   last_exit, interrupted, first_output>>
    /\ IF yarn_files[Item].st = "torn"
       THEN \* load_existing_yarn_data raises: json.load of a torn file
            /\ pc' = "fail_outer_ckpt"
            /\ UNCHANGED <<yarn_checkpoint, current_page, total_pages, proj_i,
                           stored_json_this_pattern_projects,
                           pattern_group_project_yarns, existing_project_ids,
                           calls, detail_fetches, begun>>
       ELSE LET loaded == IF yarn_files[Item].st = "ok"
                          THEN yarn_files[Item].data ELSE NoYarnData
            IN  /\ stored_json_this_pattern_projects' = <<>>
                /\ pattern_group_project_yarns' = loaded
                /\ yarn_checkpoint' =
                       [yarn_checkpoint EXCEPT !.current_project_page = 1]
                /\ calls' = calls + 1
                /\ detail_fetches' = 0
                /\ begun' = Begun(Item, loaded)
                /\ \/ /\ current_page' = 1
                      /\ total_pages' = Len(project_listing[Item])
                      /\ existing_project_ids' = YarnIds(loaded)
                      /\ proj_i' = 1
                      /\ pc' = "page_start"
                   \/ /\ pc' = "fail_outer_ckpt"
                      /\ UNCHANGED <<current_page, total_pages, proj_i,
                                     existing_project_ids>>

---------------------------------------------------------------------------
(* collect_projects_for_pattern: the while loop *)

\* lines 161-168
PageStart ==
    /\ pc = "page_start"
    /\ UNCHANGED <<clientVars, libVars, lossVars, pages_requested, serverVars,
                   diskVars, checkpoint, yarn_checkpoint, start_idx,
                   idx, current_page, stored_json_this_pattern_projects,
                   pattern_group_project_yarns, existing_project_ids,
                   runs, last_exit, detail_fetches, begun, interrupted,
                   first_output>>
    /\ IF current_page > total_pages
       THEN /\ pc' = "pattern_finish"
            /\ UNCHANGED <<total_pages, proj_i, calls>>
       ELSE IF current_page = 1
       THEN /\ pc' = "project"
            /\ proj_i' = 1
            /\ UNCHANGED <<total_pages, calls>>
       ELSE /\ calls' = calls + 1
            /\ \/ /\ total_pages' = Min(total_pages, PROJECT_PAGINATION_LIMIT)
                  /\ proj_i' = 1
                  /\ pc' = IF current_page > total_pages' THEN "pattern_finish"
                           ELSE "project"
               \/ /\ pc' = "fail_inner_yarn"
                  /\ UNCHANGED <<total_pages, proj_i>>

\* lines 171-175: the project is skipped
ProjectSkip ==
    /\ pc = "project"
    /\ InPage
    /\ ShouldSkip(Project)
    /\ proj_i' = proj_i + 1
    /\ UNCHANGED <<clientVars, libVars, lossVars, pages_requested, serverVars,
                   diskVars, pc, checkpoint, yarn_checkpoint,
                   start_idx, idx, current_page, total_pages,
                   stored_json_this_pattern_projects,
                   pattern_group_project_yarns, existing_project_ids,
                   histVars>>

\* the ids the invocation has requested the detail of though the invocation
\* before had fetched it, once the detail of project is requested
Repeated(project) ==
    IF project.id \in fetched_before THEN repeated \cup {project.id}
    ELSE repeated

\* lines 177-189, 205-207: the detail request fails and the error is swallowed
ProjectFetchFail ==
    /\ pc = "project"
    /\ InPage
    /\ ~ShouldSkip(Project)
    /\ stored_json_this_pattern_projects' =
           Append(stored_json_this_pattern_projects, BasicRecord(Project))
    /\ calls' = calls + 1
    /\ repeated' = Repeated(Project)
    /\ detail_fetches' = detail_fetches + 1
    /\ proj_i' = proj_i + 1
    /\ UNCHANGED <<clientVars, libVars, fetched_details, fetched_before,
                   resumes, pages_requested, serverVars, diskVars, pc,
                   checkpoint, yarn_checkpoint,
                   start_idx, idx, current_page, total_pages,
                   pattern_group_project_yarns, existing_project_ids,
                   runs, last_exit, begun, interrupted, first_output>>

\* lines 192-197: the checkpoint fields set after a successful detail request
Completed(yc, p, page, key) ==
    [yc EXCEPT !.current_pattern = p,
               !.current_project_page = page,
               !.completed_projects = @ \cup {key}]

\* lines 177-200: detail fetched, the yarn file rewritten in full
ProjectFetched ==
    /\ pc = "project"
    /\ InPage
    /\ ~ShouldSkip(Project)
    /\ stored_json_this_pattern_projects' =
           Append(stored_json_this_pattern_projects, BasicRecord(Project))
    /\ calls' = calls + 1
    /\ repeated' = Repeated(Project)
    /\ fetched_details' = fetched_details \cup {Project.id}
    /\ detail_fetches' = detail_fetches + 1
    /\ pattern_group_project_yarns' =
           Append(pattern_group_project_yarns, YarnRecord(Project))
    /\ yarn_checkpoint' =
           Completed(yarn_checkpoint, Item, current_page, UniqueKey(Project))
    /\ yarn_files' = [yarn_files EXCEPT ![Item] = Ok(pattern_group_project_yarns')]
    /\ pc' = "project_save"
    /\ UNCHANGED <<clientVars, libVars, fetched_before, resumes,
                   pages_requested, serverVars, ckpt_file, yarn_ckpt_file,
                   output_file,
                   checkpoint, start_idx, idx, current_page, total_pages,
                   proj_i,
                   existing_project_ids, runs, last_exit, begun, interrupted,
                   first_output>>

\* lines 199-200, 205-207: the write of the yarn file raises (open or dump):
\* the file is untouched or torn, and the error is swallowed
ProjectWriteFail ==
    /\ pc = "project"
    /\ InPage
    /\ ~ShouldSkip(Project)
    /\ stored_json_this_pattern_projects' =
           Append(stored_json_this_pattern_projects, BasicRecord(Project))
    /\ calls' = calls + 1
    /\ repeated' = Repeated(Project)
    /\ fetched_details' = fetched_details \cup {Project.id}
    /\ detail_fetches' = detail_fetches + 1
    /\ pattern_group_project_yarns' =
           Append(pattern_group_project_yarns, YarnRecord(Project))
    /\ yarn_checkpoint' =
           Completed(yarn_checkpoint, Item, current_page, UniqueKey(Project))
    /\ \/ UNCHANGED yarn_files
       \/ yarn_files' = [yarn_files EXCEPT ![Item] = Torn(NoYarnData)]
    /\ proj_i' = proj_i + 1
    /\ UNCHANGED <<clientVars, libVars, fetched_before, resumes,
                   pages_requested, serverVars, ckpt_file, yarn_ckpt_file,
                   output_file, pc,
                   checkpoint, start_idx, idx, current_page, total_pages,
                   existing_project_ids, runs, last_exit, begun, interrupted,
                   first_output>>

\* line 201
ProjectSave ==
    /\ pc = "project_save"
    /\ yarn_ckpt_file' = YarnDump(yarn_checkpoint)
    /\ proj_i' = proj_i + 1
    /\ pc' = "project"
    /\ UNCHANGED <<clientVars, libVars, lossVars, pages_requested, serverVars,
                   ckpt_file, yarn_files, output_file, checkpoint,
                   yarn_checkpoint, start_idx, idx, current_page, total_pages,
                   stored_json_this_pattern_projects,
                   pattern_group_project_yarns, existing_project_ids,
                   histVars>>

\* lines 209-212
PageEnd ==
    /\ pc = "project"
    /\ ~InPage
    /\ current_page' = current_page + 1
    /\ yarn_checkpoint' =
           [yarn_checkpoint EXCEPT !.current_project_page = current_page']
    /\ yarn_ckpt_file' = YarnDump(yarn_checkpoint')
    /\ pc' = "page_start"
    /\ UNCHANGED <<clientVars, libVars, lossVars, pages_requested, serverVars,
                   ckpt_file, yarn_files, output_file, checkpoint,
                   start_idx, idx, total_pages, proj_i,
                   stored_json_this_pattern_projects,
                   pattern_group_project_yarns, existing_project_ids,
                   histVars>>

---------------------------------------------------------------------------
(* find_projects_and_yarns: after collect_projects_for_pattern returns *)

\* an append that does not look at the list
WithResultsAlways(cp, p, projects) ==
    [cp EXCEPT !.stored_projects =
                   Append(@, [permalink |-> p, projects |-> projects])]

\* lines 271-272
WithResults(cp, p, projects) ==
    IF projects # <<>>
    THEN [cp EXCEPT !.stored_projects =
                        Append(@, [permalink |-> p, projects |-> projects])]
    ELSE cp

\* lines 271-280
PatternFinish ==
    /\ pc = "pattern_finish"
    /\ checkpoint' =
           [WithResults(checkpoint, Item, stored_json_this_pattern_projects)
               EXCEPT !.last_pattern_index = start_idx + idx]
    /\ yarn_checkpoint' =
           [yarn_checkpoint EXCEPT !.completed_patterns = Append(@, Item),
                                   !.current_pattern = "None",
                                   !.current_project_page = 1]
    /\ ckpt_file' = Ok(checkpoint')
    /\ pc' = "pattern_finish_yarn"
    /\ UNCHANGED <<clientVars, libVars, lossVars, pages_requested, serverVars,
                   yarn_ckpt_file, yarn_files, output_file,
                   start_idx, idx, current_page, total_pages, proj_i,
                   stored_json_this_pattern_projects,
                   pattern_group_project_yarns, existing_project_ids,
                   histVars>>

\* line 281, and on to the next pattern
PatternFinishYarn ==
    /\ pc = "pattern_finish_yarn"
    /\ yarn_ckpt_file' = YarnDump(yarn_checkpoint)
    /\ idx' = idx + 1
    /\ pc' = "pattern_loop"
    /\ UNCHANGED <<clientVars, libVars, lossVars, pages_requested, serverVars,
                   ckpt_file, yarn_files, output_file, checkpoint,
                   yarn_checkpoint, start_idx, current_page, total_pages,
                   proj_i,
                   stored_json_this_pattern_projects,
                   pattern_group_project_yarns, existing_project_ids,
                   histVars>>

\* collect_projects_for_pattern lines 216-219
FailInner ==
    /\ pc = "fail_inner_yarn"
    /\ yarn_ckpt_file' = YarnDump(yarn_checkpoint)
    /\ pc' = "fail_outer_ckpt"
    /\ UNCHANGED <<clientVars, libVars, lossVars, pages_requested, serverVars,
                   ckpt_file, yarn_files, output_file, checkpoint,
                   yarn_checkpoint, start_idx, idx, current_page, total_pages,
                   proj_i, stored_json_this_pattern_projects,
                   pattern_group_project_yarns, existing_project_ids,
                   histVars>>

\* find_projects_and_yarns lines 285-287
FailOuterCkpt ==
    /\ pc = "fail_outer_ckpt"
    /\ ckpt_file' = Ok(checkpoint)
    /\ pc' = "fail_outer_yarn"
    /\ UNCHANGED <<clientVars, libVars, lossVars, pages_requested, serverVars,
                   yarn_ckpt_file, yarn_files, output_file,
                   checkpoint, yarn_checkpoint, start_idx, idx, current_page,
                   total_pages, proj_i, stored_json_this_pattern_projects,
                   pattern_group_project_yarns, existing_project_ids,
                   histVars>>

\* lines 288-289
FailOuterYarn ==
    /\ pc = "fail_outer_yarn"
    /\ yarn_ckpt_file' = YarnDump(yarn_checkpoint)
    /\ Exit("failed")
    /\ UNCHANGED <<clientVars, libVars, lossVars, pages_requested, serverVars,
                   ckpt_file, yarn_files, output_file, runs, calls,
                   first_output>>

\* lines 291-294
WriteOutput ==
    /\ pc = "pattern_loop"
    /\ ~HasItem
    /\ output_file' = Ok(checkpoint.stored_projects)
    /\ pc' = "cleanup"
    /\ UNCHANGED <<clientVars, libVars, lossVars, pages_requested, serverVars,
                   ckpt_file, yarn_ckpt_file, yarn_files,
                   checkpoint, yarn_checkpoint, start_idx, idx, current_page,
                   total_pages, proj_i, stored_json_this_pattern_projects,
                   pattern_group_project_yarns, existing_project_ids,
                   histVars>>

\* the run returns checkpoint['stored_projects']
Return ==
    /\ Exit("done")
    /\ first_output' = IF first_output.set THEN first_output
                       ELSE [set |-> TRUE, data |-> output_file.data]

\* a cleanup that does not look at last_pattern_index
CleanupAlways == ckpt_file.st # "absent"

\* line 297
CleanupDue ==
    /\ ckpt_file.st # "absent"
    /\ checkpoint.last_pattern_index >= Len(checkpoint.stored_patterns) - 1

\* lines 297-298, or 301 when the cleanup is not due
Cleanup ==
    /\ pc = "cleanup"
    /\ UNCHANGED <<clientVars, libVars, lossVars, pages_requested, serverVars,
                   yarn_ckpt_file, yarn_files, output_file, runs,
                   calls>>
    /\ IF CleanupDue
       THEN /\ ckpt_file' = Absent(DefaultCheckpoint)
            /\ pc' = "cleanup_yarn"
            /\ UNCHANGED <<checkpoint, yarn_checkpoint, start_idx, idx,
                           current_page, total_pages, proj_i,
                           stored_json_this_pattern_projects,
                           pattern_group_project_yarns, existing_project_ids,
                           last_exit, detail_fetches, begun, interrupted,
                           first_output>>
       ELSE /\ Return
            /\ UNCHANGED ckpt_file

\* lines 299-301: os.remove raises when the file does not exist
CleanupYarn ==
    /\ pc = "cleanup_yarn"
    /\ UNCHANGED <<clientVars, libVars, lossVars, pages_requested, serverVars,
                   ckpt_file, yarn_files, output_file, runs, calls>>
    /\ IF yarn_ckpt_file.st = "absent"
       THEN /\ Exit("failed")
            /\ UNCHANGED <<yarn_ckpt_file, first_output>>
       ELSE /\ yarn_ckpt_file' = Absent(DumpYarnCollection(DefaultYarnCollection))
            /\ Return

---------------------------------------------------------------------------
(* The process is terminated *)

\* between two writes: the disk stays as it is
Crash ==
    /\ pc # "idle"
    /\ Exit("crashed")
    /\ UNCHANGED <<clientVars, libVars, lossVars, pages_requested, serverVars,
                   diskVars, runs, calls, first_output>>

\* the file whose rewrite comes next, when the next step is a write
WritesCkpt == pc \in {"patterns_loop", "pattern_finish", "fail_outer_ckpt"}

WritesYarnCkpt ==
    \/ pc \in {"project_save", "pattern_finish_yarn", "fail_inner_yarn",
               "fail_outer_yarn"}
    \/ pc = "project" /\ ~InPage

WritesYarnFile == pc = "project" /\ InPage /\ ~ShouldSkip(Project)

WritesOutput == pc = "pattern_loop" /\ ~HasItem

\* open(filename, 'w') has truncated the file; the dump never completes
CrashInWrite ==
    /\ \/ /\ WritesCkpt
          /\ ckpt_file' = Torn(DefaultCheckpoint)
          /\ UNCHANGED <<yarn_ckpt_file, yarn_files, output_file>>
       \/ /\ WritesYarnCkpt
          /\ yarn_ckpt_file' = Torn(DumpYarnCollection(DefaultYarnCollection))
          /\ UNCHANGED <<ckpt_file, yarn_files, output_file>>
       \/ /\ WritesYarnFile
          /\ yarn_files' = [yarn_files EXCEPT ![Item] = Torn(NoYarnData)]
          /\ UNCHANGED <<ckpt_file, yarn_ckpt_file, output_file>>
       \/ /\ WritesOutput
          /\ output_file' = Torn(<<>>)
          /\ UNCHANGED <<ckpt_file, yarn_ckpt_file, yarn_files>>
    /\ IF WritesYarnFile
       THEN /\ repeated' = Repeated(Project)
            /\ fetched_details' = fetched_details \cup {Project.id}
       ELSE UNCHANGED <<fetched_details, repeated>>
    /\ Exit("crashed")
    /\ UNCHANGED <<clientVars, libVars, pages_requested, serverVars, runs,
                   calls, first_output, fetched_before, resumes>>

\* lines 189-199: the detail has been fetched and the process is terminated
\* before the yarn file is opened
CrashAfterFetch ==
    /\ pc = "project"
    /\ InPage
    /\ ~ShouldSkip(Project)
    /\ calls' = calls + 1
    /\ repeated' = Repeated(Project)
    /\ fetched_details' = fetched_details \cup {Project.id}
    /\ Exit("crashed")
    /\ UNCHANGED <<clientVars, libVars, pages_requested, serverVars, diskVars,
                   runs, first_output, fetched_before, resumes>>

---------------------------------------------------------------------------

Next ==
    \/ Invoke
    \/ PatternsFirstFetch
    \/ PatternsPage
    \/ PatternsPageFail
    \/ PatternsComplete
    \/ PatternSkip
    \/ PatternBegin
    \/ PageStart
    \/ ProjectSkip
    \/ ProjectFetchFail
    \/ ProjectFetched
    \/ ProjectWriteFail
    \/ ProjectSave
    \/ PageEnd
    \/ PatternFinish
    \/ PatternFinishYarn
    \/ FailInner
    \/ FailOuterCkpt
    \/ FailOuterYarn
    \/ WriteOutput
    \/ Cleanup
    \/ CleanupYarn
    \/ Crash
    \/ CrashInWrite
    \/ CrashAfterFetch

Spec == Init /\ [][Next]_vars

---------------------------------------------------------------------------
(* The files as a later invocation finds them *)

\* the records of a pattern's yarn file; none when it is absent or unreadable
DiskYarn(p) == IF yarn_files[p].st = "ok" THEN yarn_files[p].data ELSE NoYarnData

HasYarnRecord(p, q) == q.id \in YarnIds(DiskYarn(p))

DiskCompletedProjects ==
    IF yarn_ckpt_file.st = "ok"
    THEN ListToSet(yarn_ckpt_file.data.completed_projects) ELSE {}

DiskCompletedPatterns ==
    IF yarn_ckpt_file.st = "ok"
    THEN Range(yarn_ckpt_file.data.completed_patterns) ELSE {}

---------------------------------------------------------------------------
(* Claims *)

\* C1 (as claimed): when a run that resumes a pattern interrupted after k of
\* its n projects had their yarn record written and their key persisted has
\* worked through the pattern, it has issued exactly n-k detail requests and
\* the pattern's yarn file holds exactly n records, one per project.
C1_CrashMidPattern ==
    (pc = "pattern_finish" /\ begun.resumed /\ begun.clean) =>
        LET n == Cardinality(ListedProjects(Item))
        IN  /\ detail_fetches = n - begun.k
            /\ yarn_files[Item].st # "torn"
            /\ Len(DiskYarn(Item)) = n
            /\ NoDuplicates(DiskYarn(Item))
            /\ YarnIds(DiskYarn(Item)) = {q.id : q \in ListedProjects(Item)}

\* C2 (as claimed): every project key in the persisted completed_projects has
\* its yarn record in the persisted yarn file of its pattern.
C2_DoneImpliesOutput ==
    \A p \in Permalinks : \A q \in ListedProjects(p) :
        UniqueKey(q) \in DiskCompletedProjects => HasYarnRecord(p, q)

\* C3 (as claimed): a checkpoint file on disk is always a complete version,
\* never an empty or half-written one.
C3_CheckpointAtomic ==
    /\ ckpt_file.st # "torn"
    /\ yarn_ckpt_file.st # "torn"

\* C4 (as claimed): a pattern is marked completed only if every project of
\* its listing has a yarn record in the pattern's yarn file.
C4_NoProjectDropped ==
    \A p \in DiskCompletedPatterns : \A q \in ListedProjects(p) :
        HasYarnRecord(p, q)

\* C5 (as claimed): once the pattern listing is completed, stored_patterns is
\* exactly the sequence an uninterrupted listing produces, each item once.
C5_ListingWithoutDuplicates ==
    checkpoint.patterns_completed =>
        checkpoint.stored_patterns = FullPatternList

\* C6 (as claimed): after a run has returned with the final output written, a
\* later run issues no network request and leaves the output file as it was.
C6_ResumeIdempotent ==
    first_output.set =>
        /\ pc # "idle" => calls = 0
        /\ (pc = "idle" /\ last_exit = "done") =>
               output_file = Ok(first_output.data)

\* C7 (as claimed, the part a finite run refutes): every re-invocation is
\* able to load the persisted state.
C7_ResumeLoads == last_exit # "load_failed"

\* C8: a listed project is skipped, with no detail request and no file
\* changed, iff its key name_id is in completed_projects or its id is a
\* project_id of the yarn file loaded when the pattern was begun; any other
\* listed project gets exactly one detail request.
C8_DedupCorrect ==
    [][ (pc = "project" /\ InPage /\ pc' # "idle") =>
          LET key == Project.name \o "_" \o ToString(Project.id)
          IN  IF \/ key \in yarn_checkpoint.completed_projects
                 \/ Project.id \in begun.ids
              THEN /\ detail_fetches' = detail_fetches
                   /\ calls' = calls
                   /\ diskVars' = diskVars
              ELSE /\ detail_fetches' = detail_fetches + 1
                   /\ calls' = calls + 1 ]_vars

\* C8's example: Sweater_42 completed, nothing in the yarn file at the start
\* of the pattern: Sweater/42 was skipped, Sweater/43 has just been fetched
C8_Witness ==
    /\ pc = "project_save"
    /\ Project = S43
    /\ begun.ids = {}
    /\ yarn_checkpoint.completed_projects = {"Sweater_42", "Sweater_43"}
    /\ detail_fetches = 1

\* C32 (as claimed): an invocation that follows a terminated one requests
\* again the detail of at most one project whose detail the terminated
\* invocation had fetched.
C32_OneUnitLost ==
    resumes = "crashed" => Cardinality(repeated) <= 1

\* no entry of a stored_projects list has an empty list of projects
NoPlaceholder(stored_projects) ==
    \A k \in 1..Len(stored_projects) : stored_projects[k].projects # <<>>

\* C34: every entry of stored_projects, in memory, in the checkpoint file
\* and in the output file, has a non-empty list of project records; finishing
\* a pattern that gave no new project adds no entry, and the pattern is
\* marked completed all the same.
C34_NoEmptyPlaceholders ==
    /\ [](/\ NoPlaceholder(checkpoint.stored_projects)
          /\ ckpt_file.st = "ok" => NoPlaceholder(ckpt_file.data.stored_projects)
          /\ output_file.st = "ok" => NoPlaceholder(output_file.data))
    /\ [][ (pc = "pattern_finish" /\ pc' = "pattern_finish_yarn") =>
              /\ stored_json_this_pattern_projects = <<>> =>
                     checkpoint'.stored_projects = checkpoint.stored_projects
              /\ checkpoint'.last_pattern_index = start_idx + idx
              /\ Item \in Range(yarn_checkpoint'.completed_patterns) ]_vars

\* pattern 'b' lists no project: it has been finished, and stored_projects
\* holds the entry of pattern 'a' alone
C34_Witness ==
    /\ pc = "pattern_finish_yarn"
    /\ Item = "b"
    /\ stored_json_this_pattern_projects = <<>>
    /\ Len(checkpoint.stored_projects) = 1
    /\ checkpoint.stored_projects[1].permalink = "a"
    /\ checkpoint.last_pattern_index = 1
    /\ "b" \in Range(yarn_checkpoint.completed_patterns)

\* the basic records the output file holds for a pattern
OutputRecords(p) ==
    UNION {Range(output_file.data[k].projects) :
              k \in {j \in 1..Len(output_file.data) :
                         output_file.data[j].permalink = p}}

\* C37 (as claimed): a final output file holds, for every listed pattern,
\* the basic records an uninterrupted crawl stores, one per listed project;
\* in particular every project with a yarn record in the yarn file of its
\* pattern has its basic record in the output.
C37_SameOutput ==
    output_file.st = "ok" =>
        /\ \A p \in Permalinks : \A q \in ListedProjects(p) :
              HasYarnRecord(p, q) => BasicRecord(q) \in OutputRecords(p)
        /\ \A p \in Range(FullPatternList) :
              OutputRecords(p) = {BasicRecord(q) : q \in ListedProjects(p)}

---------------------------------------------------------------------------
(* RavelryClient._check_rate_limit *)

\* lines 96-97: the calls still inside the window
InWindow(stamps, now) ==
    SelectSeq(stamps, LAMBDA t : now - t < rate_limit_period)

\* line 101
SleepTime(kept, now) == rate_limit_period - (now - kept[1])

\* line 107: the timestamp recorded for the call
Recorded(now, released) == now

\* a limiter that is not consulted
NoRateLimit(late) == UNCHANGED <<clock, last_calls, issued>>

\* lines 94-107, with time.sleep returning `late` seconds late
CheckRateLimit(late) ==
    LET now  == clock
        kept == InWindow(last_calls, now)
    IN  IF Len(kept) >= rate_limit_calls
        THEN LET sleep_time == SleepTime(kept, now)
                 released   == IF sleep_time > 0 THEN now + sleep_time + late
                               ELSE now
             IN  /\ clock' = released
                 /\ last_calls' = Append(Tail(kept), Recorded(now, released))
                 /\ issued' = Append(issued, released)
        ELSE /\ clock' = now
             /\ last_calls' = Append(kept, Recorded(now, now))
             /\ issued' = Append(issued, now)

\* a caller acquires a slot
Acquire ==
    /\ rpc = "idle"
    /\ Len(issued) < MaxIssued
    /\ \E late \in 0..MaxOversleep : CheckRateLimit(late)
    /\ UNCHANGED <<crawlVars, libVars, rate_limit_calls, rate_limit_period, rpc,
                   attempt_number, outcomes, waits, requests>>

\* time passes between two calls
Tick ==
    /\ rpc \in {"idle", "attempt"}
    /\ clock < MaxClock
    /\ clock' = clock + 1
    /\ UNCHANGED <<crawlVars, libVars, rate_limit_calls, rate_limit_period,
                   last_calls,
                   rpc, attempt_number, issued, outcomes, waits, requests>>

---------------------------------------------------------------------------
(* RavelryClient._make_request under                                       *)
(* @retry(wait=wait_exponential(multiplier=1, min=4, max=10),              *)
(*        stop=stop_after_attempt(3),                                      *)
(*        retry=retry_if_exception_type((RequestException, JSONDecodeError)))*)

STOP_AFTER_ATTEMPT == 3
WAIT_MULTIPLIER    == 1
WAIT_MIN           == 4
WAIT_MAX           == 10

\* what a transport call can meet
Outcomes == {"ok", "connection_error", "timeout", "http_4xx", "http_5xx",
             "invalid_json"}

\* the exception _make_request raises for an outcome: raise_for_status raises
\* HTTPError for 4xx and 5xx alike
Raised(outcome) ==
    CASE outcome = "connection_error" -> "ConnectionError"
      [] outcome = "timeout"          -> "Timeout"
      [] outcome = "http_4xx"         -> "HTTPError"
      [] outcome = "http_5xx"         -> "HTTPError"
      [] outcome = "invalid_json"     -> "JSONDecodeError"
      [] OTHER                        -> "None"

\* the subclasses of requests.exceptions.RequestException that can be raised
RequestExceptions == {"ConnectionError", "Timeout", "HTTPError"}

\* a retry predicate that retries nothing
RetryNever(outcome) == FALSE

\* retry_if_exception_type((RequestException, json.JSONDecodeError))
RetryIf(outcome) ==
    Raised(outcome) \in RequestExceptions \cup {"JSONDecodeError"}

RECURSIVE Pow(_, _)
Pow(b, e) == IF e = 0 THEN 1 ELSE b * Pow(b, e - 1)

Max(a, b) == IF a >= b THEN a ELSE b

\* tenacity wait_exponential: multiplier * 2^(attempt-1), held in [min, max]
WaitExponential(attempt) ==
    Max(WAIT_MIN, Min(WAIT_MULTIPLIER * Pow(2, attempt - 1), WAIT_MAX))

\* a caller calls _make_request
RequestStart ==
    /\ rpc = "idle"
    /\ Len(issued) + STOP_AFTER_ATTEMPT <= MaxIssued
    /\ rpc' = "attempt"
    /\ attempt_number' = 1
    /\ outcomes' = <<>>
    /\ waits' = <<>>
    /\ requests' = requests + 1
    /\ UNCHANGED <<crawlVars, libVars, rate_limit_calls, rate_limit_period,
                   last_calls,
                   clock, issued>>

\* lines 140-158 once, and the retry wrapper's decision on what it raised
Attempt ==
    /\ rpc = "attempt"
    /\ \E late \in 0..MaxOversleep : CheckRateLimit(late)
    /\ \E outcome \in Outcomes :
          /\ outcomes' = Append(outcomes, outcome)
          /\ rpc' = IF outcome = "ok" THEN "returned"
                    ELSE IF ~RetryIf(outcome) THEN "raised"
                    ELSE IF attempt_number >= STOP_AFTER_ATTEMPT THEN "raised"
                    ELSE "wait"
    /\ UNCHANGED <<crawlVars, libVars, rate_limit_calls, rate_limit_period,
                   attempt_number, waits, requests>>

\* the retry wrapper sleeps, then calls _make_request again
Wait ==
    /\ rpc = "wait"
    /\ clock' = clock + WaitExponential(attempt_number)
    /\ waits' = Append(waits, WaitExponential(attempt_number))
    /\ attempt_number' = attempt_number + 1
    /\ rpc' = "attempt"
    /\ UNCHANGED <<crawlVars, libVars, rate_limit_calls, rate_limit_period,
                   last_calls,
                   issued, outcomes, requests>>

\* the result or the error reaches the caller
RequestEnd ==
    /\ rpc \in {"returned", "raised"}
    /\ rpc' = "idle"
    /\ UNCHANGED <<crawlVars, libVars, rate_limit_calls, rate_limit_period,
                   last_calls,
                   clock, attempt_number, issued, outcomes, waits, requests>>

\* no crawl runs beside the client
CrawlIdle ==
    /\ pattern_listing = << <<"a">> >>
    /\ project_listing = [a |-> << <<>> >>, b |-> << <<>> >>]
    /\ ckpt_file = Absent(DefaultCheckpoint)
    /\ yarn_ckpt_file = Absent(DumpYarnCollection(DefaultYarnCollection))
    /\ yarn_files = [p \in Permalinks |-> Absent(NoYarnData)]
    /\ output_file = Absent(<<>>)
    /\ IdleMemory
    /\ runs = 0
    /\ last_exit = "none"
    /\ calls = 0
    /\ detail_fetches = 0
    /\ begun = NoBegun
    /\ interrupted = "None"
    /\ first_output = NoOutput
    /\ pages_requested = <<>>
    /\ fetched_details = {}
    /\ fetched_before = {}
    /\ repeated = {}
    /\ resumes = "none"

ClientInit ==
    /\ CrawlIdle
    /\ PaginateIdle
    /\ SaveIdle
    /\ ToolIdle
    /\ rate_limit_calls \in 1..MaxRateCalls
    /\ rate_limit_period \in 1..MaxRatePeriod
    /\ last_calls = <<>>
    /\ clock = 0
    /\ rpc = "idle"
    /\ attempt_number = 0
    /\ issued = <<>>
    /\ outcomes = <<>>
    /\ waits = <<>>
    /\ requests = 0

ClientNext ==
    \/ Acquire
    \/ Tick
    \/ RequestStart
    \/ Attempt
    \/ Wait
    \/ RequestEnd

ClientSpec == ClientInit /\ [][ClientNext]_vars

\* C9 (as claimed): no interval of rate_limit_period seconds contains more
\* than rate_limit_calls issued calls, each call counted at the instant
\* _check_rate_limit returns: any rate_limit_calls + 1 consecutive calls span
\* at least rate_limit_period seconds.
C9_RateLimited ==
    \A i \in 1..Len(issued) :
        i + rate_limit_calls <= Len(issued) =>
            issued[i + rate_limit_calls] - issued[i] >= rate_limit_period

\* C10 (as claimed): a transport call answered with a 4xx client error is the
\* last one of its request; answered so at once, the request makes one call.
C10_NoRetryOf4xx ==
    \A i \in 1..Len(outcomes) :
        outcomes[i] = "http_4xx" => Len(outcomes) = i

\* the failures C11 calls retryable
Retryable == {"connection_error", "timeout", "http_5xx", "invalid_json"}

\* C11: one request makes at most 3 transport calls; a successful call is the
\* last one of its request and the request returns on it; a request whose
\* calls all failed with a retryable error surfaces the failure only after
\* exactly 3 calls, and goes on retrying before that.
C11_RetryBound ==
    /\ Len(outcomes) <= 3
    /\ \A i \in 1..Len(outcomes) :
          outcomes[i] = "ok" => (i = Len(outcomes) /\ rpc \in {"returned", "idle"})
    /\ rpc = "returned" => outcomes[Len(outcomes)] = "ok"
    /\ (rpc = "raised" /\ \A i \in 1..Len(outcomes) : outcomes[i] \in Retryable)
          => Len(outcomes) = 3
    /\ (rpc # "idle" /\ Len(outcomes) \in 1..2
        /\ \A i \in 1..Len(outcomes) : outcomes[i] \in Retryable)
          => rpc \in {"wait", "attempt"}

\* three retryable failures in a row, then the failure reaches the caller
C11_Witness ==
    /\ rpc = "raised"
    /\ outcomes = <<"connection_error", "timeout", "http_5xx">>

\* C12: every transport call of a request comes with exactly one call of
\* _check_rate_limit, made in the same attempt, and between the attempts of a
\* request the limiter is not called: n attempts record n limiter calls.
C12_AttemptsRateLimited ==
    [][ /\ Len(outcomes') = Len(outcomes) + 1
            => /\ Len(issued') = Len(issued) + 1
               /\ last_calls' # <<>>
               /\ last_calls'[Len(last_calls')] = clock
        /\ (rpc # "idle" /\ issued' # issued)
            => Len(outcomes') = Len(outcomes) + 1 ]_vars

\* a request of three attempts has made three limiter calls
C12_Witness ==
    /\ requests = 1
    /\ rpc = "raised"
    /\ Len(outcomes) = 3
    /\ Len(issued) = 3

\* C36 (as claimed): _last_calls is in non-decreasing time order, holds at
\* most rate_limit_calls timestamps, and each timestamp is the time at which
\* its call was released to the caller: the list is the tail of the release
\* times.
C36_RateWindow ==
    /\ \A j \in 2..Len(last_calls) : last_calls[j - 1] <= last_calls[j]
    /\ Len(last_calls) <= rate_limit_calls
    /\ Len(last_calls) <= Len(issued)
    /\ \A j \in 1..Len(last_calls) :
          last_calls[j] = issued[Len(issued) - Len(last_calls) + j]

\* base * multiplier^k capped at the maximum delay, with the decorator's
\* multiplier=1 as the base delay and tenacity's exp_base 2 as the multiplier
Backoff(k) == Min(WAIT_MULTIPLIER * Pow(2, k), WAIT_MAX)

\* C35 (as claimed): the delay before the k-th retry is base * multiplier^k
\* capped at the maximum delay (k counted from 0 or from 1); the delays are
\* non-decreasing in k and none exceeds the maximum delay.
C35_BackoffDelay ==
    /\ \A k \in 1..Len(waits) : waits[k] \in {Backoff(k - 1), Backoff(k)}
    /\ \A k \in 1..Len(waits) : waits[k] <= WAIT_MAX
    /\ \A k \in 2..Len(waits) : waits[k - 1] <= waits[k]

---------------------------------------------------------------------------
(* RavelryClient.paginate: a generator, run by the consumer's next() calls  *)
(*   gen = "created"    the generator object exists, its body has not run   *)
(*         "loop"       running, at the while test of line 191              *)
(*         "items"      running, in the for loop of lines 202-203           *)
(*         "suspended"  stopped at the yield, an item handed to the consumer*)
(*         "done"       the body has ended (StopIteration)                  *)
(*         "raised"     the body has raised into the consumer               *)
(*         "closed"     the consumer has dropped the generator              *)

\* the listings: page k holds the items 10k+1 .. 10k+n, n in 0..MaxPageSize
Listing(sizes) ==
    [k \in DOMAIN sizes |-> [i \in 1..sizes[k] |-> 10 * k + i]]

Listings ==
    UNION { {Listing(sizes) : sizes \in [1..P -> 0..MaxPageSize]} : P \in 1..MaxPages }

\* response['paginator']['page_count']
PageCount == Len(pg_listing)

\* response[data_key] of the request for page k
PageItems(k) == IF k \in 1..Len(pg_listing) THEN pg_listing[k] ELSE <<>>

\* response['paginator']['page_count'] as the server may report it: the
\* pages of the listing in the first response, any count in a later one
ReportedCounts ==
    IF fetched = <<>> THEN {PageCount} ELSE 1..(MaxPages + 1)

\* a loop test that lets every page through
ContinueAlways == TRUE

\* line 191: while max_pages is None or page <= max_pages
Continue == max_pages = None \/ pg_page <= max_pages

\* a total_pages that follows the page_count of every response
TotalPagesLatest(page_count) ==
    IF max_pages # None /\ max_pages # 0 THEN Min(page_count, max_pages)
    ELSE page_count

\* lines 195-198: total_pages, read from the first response only
TotalPages(page_count) ==
    IF pg_total_pages # None THEN pg_total_pages
    ELSE IF max_pages # None /\ max_pages # 0 THEN Min(page_count, max_pages)
    ELSE page_count

\* the consumer calls next()
Pull ==
    /\ gen \in {"created", "suspended"}
    /\ gen' = IF gen = "created" THEN "loop" ELSE "items"
    /\ UNCHANGED <<crawlVars, clientVars, saveVars, toolVars, reported_pages,
                   pg_listing, max_pages,
                   pg_page, pg_total_pages, response, item_i, yielded, fetched,
                   failed>>

\* the consumer stops pulling: the generator is closed, the finally runs
Stop ==
    /\ gen \in {"created", "suspended"}
    /\ gen' = "closed"
    /\ UNCHANGED <<crawlVars, clientVars, saveVars, toolVars, reported_pages,
                   pg_listing, max_pages,
                   pg_page, pg_total_pages, response, item_i, yielded, fetched,
                   failed>>

\* line 191, test false: the loop ends, and the body with it
LoopExit ==
    /\ gen = "loop"
    /\ ~Continue
    /\ gen' = "done"
    /\ UNCHANGED <<crawlVars, clientVars, saveVars, toolVars, reported_pages,
                   pg_listing, max_pages,
                   pg_page, pg_total_pages, response, item_i, yielded, fetched,
                   failed>>

\* lines 191-200: the page is requested and _make_request returns
FetchOk ==
    /\ gen = "loop"
    /\ Continue
    /\ fetched' = Append(fetched, pg_page)
    /\ response' = PageItems(pg_page)
    /\ reported_pages' \in ReportedCounts
    /\ pg_total_pages' = TotalPages(reported_pages')
    /\ item_i' = 0
    /\ gen' = "items"
    /\ UNCHANGED <<crawlVars, clientVars, saveVars, toolVars, pg_listing,
                   max_pages,
                   pg_page, yielded, failed>>

\* a failed request that is passed over: the generator goes on to the next page
FetchFailSkip ==
    /\ gen = "loop"
    /\ Continue
    /\ failed = 0
    /\ pg_page < PageCount
    /\ fetched' = Append(fetched, pg_page)
    /\ failed' = pg_page
    /\ pg_page' = pg_page + 1
    /\ UNCHANGED <<crawlVars, clientVars, saveVars, toolVars, reported_pages,
                   pg_listing, max_pages, gen,
                   pg_total_pages, response, item_i, yielded>>

\* lines 191-193, 211-213: _make_request raises; only the finally runs, and
\* the exception reaches the consumer
FetchFail ==
    /\ gen = "loop"
    /\ Continue
    /\ fetched' = Append(fetched, pg_page)
    /\ failed' = pg_page
    /\ gen' = "raised"
    /\ UNCHANGED <<crawlVars, clientVars, saveVars, toolVars, reported_pages,
                   pg_listing, max_pages,
                   pg_page, pg_total_pages, response, item_i, yielded>>

\* lines 202-203: the next item is yielded
Yield ==
    /\ gen = "items"
    /\ item_i < Len(response)
    /\ item_i' = item_i + 1
    /\ yielded' = Append(yielded, response[item_i + 1])
    /\ gen' = "suspended"
    /\ UNCHANGED <<crawlVars, clientVars, saveVars, toolVars, reported_pages,
                   pg_listing, max_pages,
                   pg_page, pg_total_pages, response, fetched, failed>>

\* a page that is left before its items are all yielded
PageDoneEarly ==
    /\ gen = "items"
    /\ IF pg_page >= pg_total_pages
       THEN gen' = "done" /\ UNCHANGED pg_page
       ELSE gen' = "loop" /\ pg_page' = pg_page + 1
    /\ UNCHANGED <<crawlVars, clientVars, saveVars, toolVars, reported_pages,
                   pg_listing, max_pages,
                   pg_total_pages, response, item_i, yielded, fetched, failed>>

\* a page after which the generator always ends
PageDoneOnce ==
    /\ gen = "items"
    /\ item_i = Len(response)
    /\ gen' = "done"
    /\ UNCHANGED <<crawlVars, clientVars, saveVars, toolVars, reported_pages,
                   pg_listing, max_pages,
                   pg_page, pg_total_pages, response, item_i, yielded, fetched,
                   failed>>

\* lines 205-210: the for loop is exhausted; break on the last page, else
\* page += 1
PageDone ==
    /\ gen = "items"
    /\ item_i = Len(response)
    /\ IF pg_page >= pg_total_pages
       THEN gen' = "done" /\ UNCHANGED pg_page
       ELSE gen' = "loop" /\ pg_page' = pg_page + 1
    /\ UNCHANGED <<crawlVars, clientVars, saveVars, toolVars, reported_pages,
                   pg_listing, max_pages,
                   pg_total_pages, response, item_i, yielded, fetched, failed>>

\* paginate(...) has been called: a generator exists, nothing has run
PaginateInit ==
    /\ CrawlIdle
    /\ ClientIdle
    /\ SaveIdle
    /\ ToolIdle
    /\ pg_listing \in Listings
    /\ max_pages \in {None} \cup 0..MaxMaxPages
    /\ gen = "created"
    /\ pg_page = 1
    /\ pg_total_pages = None
    /\ response = <<>>
    /\ item_i = 0
    /\ yielded = <<>>
    /\ fetched = <<>>
    /\ failed = 0
    /\ reported_pages = None

PaginateNext ==
    \/ Pull
    \/ Stop
    \/ LoopExit
    \/ FetchOk
    \/ FetchFail
    \/ Yield
    \/ PageDone

PaginateSpec == PaginateInit /\ [][PaginateNext]_vars

\* a consumer that goes on calling next() while the generator is suspended,
\* a generator that runs while it can, and requests that return or raise
PaginateFairSpec ==
    PaginateInit /\ [][PaginateNext]_vars /\ WF_vars(PaginateNext)

\* total_pages as the first response fixes it
FirstTotal ==
    IF max_pages # None /\ max_pages # 0 THEN Min(PageCount, max_pages)
    ELSE PageCount

\* C39: a generator that is consumed ends; the k-th fetch asks for page k;
\* total_pages is the value the first response gave and does not change when
\* a later response reports another page count; and there are never more
\* fetches than the first response's page count, empty pages included.
C39_PaginationTerminates ==
    /\ <>(gen \in {"done", "raised", "closed"})
    /\ [](/\ \A k \in 1..Len(fetched) : fetched[k] = k
          /\ pg_total_pages # None => pg_total_pages = FirstTotal
          /\ Len(fetched) <= PageCount)

\* a listing of two pages, the second one empty, whose second response
\* reported four pages: the generator has ended after two fetches
C39_Witness ==
    /\ gen = "done"
    /\ max_pages = None
    /\ PageCount = 2
    /\ pg_listing[2] = <<>>
    /\ reported_pages = 4
    /\ fetched = <<1, 2>>

\* the pages 1..n in order
Pages(n) == [k \in 1..n |-> k]

\* the items of the pages 1..n in server order
ItemsOf(n) == Flatten(SubSeq(pg_listing, 1, n))

\* C13: a generator with no max_pages that was consumed to its end over a
\* listing of P pages has yielded the items of pages 1..P in server order,
\* each once, and has requested the pages 1..P, each once.
C13_PaginationComplete ==
    (gen = "done" /\ max_pages = None) =>
        /\ yielded = ItemsOf(PageCount)
        /\ NoDuplicates(yielded)
        /\ fetched = Pages(PageCount)

\* three pages, the last one partial, consumed to the end
C13_Witness ==
    /\ gen = "done"
    /\ max_pages = None
    /\ pg_listing = << <<11, 12>>, <<21, 22>>, <<31>> >>
    /\ Len(fetched) = 3

\* C14: when the request for page k fails the consumer gets the failure,
\* having received exactly the items of pages 1..k-1; page k was the last
\* page requested and nothing is yielded or requested after it.
C14_PaginationFailure ==
    failed # 0 =>
        /\ gen = "raised"
        /\ fetched = Pages(failed)
        /\ yielded = ItemsOf(failed - 1)

\* the request for page 2 of three has failed
C14_Witness ==
    /\ gen = "raised"
    /\ failed = 2
    /\ PageCount = 3
    /\ yielded = <<11, 12>>

\* C15: a page is requested only when the consumer has pulled every item of
\* the pages requested before it, and once the consumer has stopped pulling
\* no page is requested.
C15_PaginationLazy ==
    [][ /\ fetched' # fetched => yielded = ItemsOf(Len(fetched))
        /\ gen = "closed" => (fetched' = fetched /\ yielded' = yielded) ]_vars

\* the consumer stopped after the first item of a two-item page 1 of three pages
C15_Witness ==
    /\ gen = "closed"
    /\ PageCount = 3
    /\ Len(pg_listing[1]) = 2
    /\ yielded = <<11>>
    /\ fetched = <<1>>

\* C16: a generator with max_pages = M >= 0 that was consumed to its end over
\* a listing of P pages has requested the pages 1..min(P, M) and yielded
\* their items in order.
C16_PaginationClamp ==
    (gen = "done" /\ max_pages # None) =>
        LET n == Min(PageCount, max_pages)
        IN  /\ fetched = Pages(n)
            /\ yielded = ItemsOf(n)

\* three pages listed, max_pages = 2: two pages requested
C16_Witness ==
    /\ gen = "done"
    /\ max_pages = 2
    /\ PageCount = 3
    /\ fetched = <<1, 2>>
    /\ Len(pg_listing[2]) > 0

\* C17 (as claimed): a listing session started at page s requests the pages
\* s, s+1, ... in order, each once, and no page before s.
C17_ResumablePagination ==
    \A i \in 1..Len(pages_requested) :
        pages_requested[i] = pages_requested[1] + i - 1

---------------------------------------------------------------------------
(* RavelryClient._save_checkpoint                                          *)
(* The parent directory exists, so the mkdir of line 451 changes nothing.  *)

\* a save that writes the document into the checkpoint file itself
WriteOpenInPlace ==
    /\ spc = "write"
    /\ checkpoint_file' = Torn(0)
    /\ spc' = "writing"
    /\ UNCHANGED <<crawlVars, clientVars, pageVars, toolVars, temp_file,
                   sv_data,
                   previous, saves>>

\* _save_checkpoint(checkpoint_file, data) is called
SaveCall ==
    /\ spc \in {"idle", "raised", "killed"}
    /\ saves < MaxSaves
    /\ saves' = saves + 1
    /\ \E d \in 1..MaxData : sv_data' = d
    /\ previous' = checkpoint_file
    /\ spc' = "write"
    /\ UNCHANGED <<crawlVars, clientVars, pageVars, toolVars, checkpoint_file,
                   temp_file>>

\* line 456, write_text opens the temporary file: created or truncated
WriteOpen ==
    /\ spc = "write"
    /\ temp_file' = Torn(0)
    /\ spc' = "writing"
    /\ UNCHANGED <<crawlVars, clientVars, pageVars, toolVars, checkpoint_file,
                   sv_data,
                   previous, saves>>

\* line 456, write_text has written the document and closed the file
WriteDone ==
    /\ spc = "writing"
    /\ temp_file' = Ok(sv_data)
    /\ spc' = "replace"
    /\ UNCHANGED <<crawlVars, clientVars, pageVars, toolVars, checkpoint_file,
                   sv_data,
                   previous, saves>>

\* line 456 raises: json.dumps before the file is touched, or the write
WriteRaise ==
    /\ spc \in {"write", "writing"}
    /\ spc' = "except"
    /\ UNCHANGED <<crawlVars, clientVars, pageVars, toolVars, checkpoint_file,
                   temp_file,
                   sv_data, previous, saves>>

\* line 457: the temporary file takes the place of the checkpoint file
Replace ==
    /\ spc = "replace"
    /\ checkpoint_file' = temp_file
    /\ temp_file' = Absent(0)
    /\ spc' = "idle"
    /\ UNCHANGED <<crawlVars, clientVars, pageVars, toolVars, sv_data,
                   previous, saves>>

\* line 457 raises: neither file is changed
ReplaceRaise ==
    /\ spc = "replace"
    /\ spc' = "except"
    /\ UNCHANGED <<crawlVars, clientVars, pageVars, toolVars, checkpoint_file,
                   temp_file,
                   sv_data, previous, saves>>

\* lines 458-462: the temporary file is unlinked if it exists, and the
\* exception is raised again
Except ==
    /\ spc = "except"
    /\ temp_file' = IF temp_file.st # "absent" THEN Absent(0) ELSE temp_file
    /\ spc' = "raised"
    /\ UNCHANGED <<crawlVars, clientVars, pageVars, toolVars, checkpoint_file,
                   sv_data,
                   previous, saves>>

\* the process is terminated inside the save
Terminate ==
    /\ spc \in {"write", "writing", "replace", "except"}
    /\ spc' = "killed"
    /\ UNCHANGED <<crawlVars, clientVars, pageVars, toolVars, checkpoint_file,
                   temp_file,
                   sv_data, previous, saves>>

SaveInit ==
    /\ CrawlIdle
    /\ ClientIdle
    /\ PaginateIdle
    /\ SaveIdle
    /\ ToolIdle

SaveNext ==
    \/ SaveCall
    \/ WriteOpen
    \/ WriteDone
    \/ WriteRaise
    \/ Replace
    \/ ReplaceRaise
    \/ Except
    \/ Terminate

SaveSpec == SaveInit /\ [][SaveNext]_vars

\* C18: the checkpoint file is never half-written; from the call of a save
\* until its replace step, and after a termination or an error of the save,
\* it holds what it held when the save was called; a save that has raised
\* has removed the temporary file; a save that has returned has left the
\* complete new document.
C18_SaveAtomic ==
    /\ checkpoint_file.st # "torn"
    /\ spc # "idle" => checkpoint_file = previous
    /\ spc = "raised" => temp_file.st = "absent"
    /\ (spc = "idle" /\ saves > 0) => checkpoint_file = Ok(sv_data)

\* terminated after the temporary file was written and before the replace:
\* the previous document 1 is intact, the new document 2 is in the temp file
C18_Witness ==
    /\ spc = "killed"
    /\ temp_file = Ok(2)
    /\ checkpoint_file = Ok(1)
    /\ sv_data = 2

\* the pattern-level checkpoint has reached the last stored pattern
IndexAtEnd ==
    checkpoint.last_pattern_index >= Len(checkpoint.stored_patterns) - 1

\* C19: a checkpoint file is removed only by the cleanup of a run whose
\* last_pattern_index has reached the last index of stored_patterns; a run
\* that ends by an error before the cleanup removes neither file, and one
\* that ends by an error in the loop over the patterns leaves both on disk.
C19_DeleteOnlyAtCompletion ==
    [][ /\ (ckpt_file.st # "absent" /\ ckpt_file'.st = "absent")
            => (pc = "cleanup" /\ IndexAtEnd)
        /\ (yarn_ckpt_file.st # "absent" /\ yarn_ckpt_file'.st = "absent")
            => (pc = "cleanup_yarn" /\ IndexAtEnd)
        /\ (last_exit' = "failed" /\ pc \notin {"idle", "cleanup", "cleanup_yarn"})
            => /\ ckpt_file.st # "absent" => ckpt_file'.st # "absent"
               /\ yarn_ckpt_file.st # "absent" => yarn_ckpt_file'.st # "absent"
        /\ (last_exit' = "failed" /\ pc = "fail_outer_yarn")
            => (ckpt_file'.st = "ok" /\ yarn_ckpt_file'.st = "ok") ]_vars

\* a run has ended by an error inside pattern "a": both files are on disk
C19_Witness ==
    /\ pc = "idle"
    /\ last_exit = "failed"
    /\ interrupted = "a"
    /\ ckpt_file.st = "ok"
    /\ yarn_ckpt_file.st = "ok"

\* C20 (as claimed): a run that has worked through every stored pattern
\* without error returns with the output file written and both checkpoint
\* files deleted; with an empty stored_patterns too, where the run does not
\* end by an error once the output is written.
C20_CrawlTerminates ==
    /\ (pc = "idle" /\ last_exit = "done") =>
           /\ output_file.st = "ok"
           /\ ckpt_file.st = "absent"
           /\ yarn_ckpt_file.st = "absent"
    /\ ~(/\ pc = "idle"
         /\ last_exit = "failed"
         /\ pattern_listing = << <<>> >>
         /\ output_file.st = "ok")

\* C21 (as claimed): a detail request that fails takes the run out of the
\* loop over the projects, to the error path that saves the checkpoint and
\* raises; no request follows it.
C21_DetailFailureHalts ==
    [][ (/\ pc = "project"
         /\ detail_fetches' = detail_fetches + 1
         /\ pattern_group_project_yarns' = pattern_group_project_yarns)
            => (pc' # "project" /\ calls' = calls + 1) ]_vars

\* C22 (as claimed): when the write of the per-pattern yarn file fails, the
\* run leaves the loop over the projects: it does not go on to the next
\* project or page.
C22_WriteFailureHalts ==
    [][ (/\ pc = "project"
         /\ Len(pattern_group_project_yarns') > Len(pattern_group_project_yarns)
         /\ yarn_files'[Item] # Ok(pattern_group_project_yarns'))
            => pc' \notin {"project", "page_start"} ]_vars

\* C23 (as claimed): a run that ends by the failure of a listing request has
\* left its in-memory checkpoint in the checkpoint file: the pattern-level
\* one when a pattern page failed (the first one included), both when a
\* project page failed.
C23_ErrorPersistence ==
    [][ /\ (pc \in {"patterns_first", "patterns_loop"} /\ last_exit' = "failed")
            => ckpt_file' = Ok(checkpoint)
        /\ (pc = "fail_outer_yarn" /\ last_exit' = "failed")
            => /\ ckpt_file' = Ok(checkpoint)
               /\ yarn_ckpt_file' = YarnDump(yarn_checkpoint) ]_vars

\* C24 (as claimed): when the pattern that is begun is the current_pattern
\* of the loaded checkpoint, its project listing starts at the persisted
\* current_project_page.
C24_ResumeKeepsPage ==
    [][ (/\ pc = "pattern_loop"
         /\ pc' = "page_start"
         /\ yarn_checkpoint.current_pattern = Item)
            => current_page' = yarn_checkpoint.current_project_page ]_vars

\* C25 (as claimed): every pattern at an index <= last_pattern_index of the
\* persisted pattern-level checkpoint is in completed_patterns of the
\* persisted project/yarn-level checkpoint.
C25_IndexImpliesCompleted ==
    ckpt_file.st = "ok" =>
        \A i \in 1..(ckpt_file.data.last_pattern_index + 1) :
            ckpt_file.data.stored_patterns[i] \in DiskCompletedPatterns

\* C26 (as claimed): a key in the in-memory completed_projects belongs to a
\* project whose yarn record has been written to its pattern's yarn file.
C26_KeyAfterWrite ==
    pc \in PatternPcs =>
        \A q \in ListedProjects(Item) :
            UniqueKey(q) \in yarn_checkpoint.completed_projects
                => HasYarnRecord(Item, q)

\* C27 (as claimed): no key leaves completed_projects, in memory while a run
\* lasts, or in the persisted checkpoint until the cleanup deletes it.
C27_CompletedMonotone ==
    [][ /\ (pc # "idle" /\ pc' # "idle")
            => yarn_checkpoint.completed_projects
                   \subseteq yarn_checkpoint'.completed_projects
        /\ pc # "cleanup_yarn"
            => DiskCompletedProjects \subseteq DiskCompletedProjects' ]_vars

\* C29 (as claimed): a run that has written the output and reached the
\* cleanup returns; a checkpoint file that cannot be deleted does not make
\* it end by an error.
C29_DeleteFailureNotFatal ==
    [][ (pc = "cleanup" \/ pc = "cleanup_yarn") =>
            (last_exit' # "failed" /\ output_file' = output_file) ]_vars

---------------------------------------------------------------------------
(* completed_projects through save_checkpoint and load_checkpoint          *)

\* the project keys a checkpoint may hold
Keys == {"Sweater_42", "Sweater_43", "Hat_1_7", "Hat_1"}

\* list(a_set): the members, each once, in any order
Orders(S) ==
    {l \in [1..Cardinality(S) -> S] : \A i, j \in 1..Cardinality(S) :
                                          l[i] = l[j] => i = j}

\* key in completed_projects, on a set or on a list
Member(k, m) == IF m.is_set THEN k \in m.as_set ELSE k \in Range(m.as_list)

\* save_checkpoint, lines 42-51: a set is replaced by a list, in memory
\* too, and the list is dumped
RtSave ==
    /\ rt_pc \in {"fresh", "saved", "loaded"}
    /\ \E l \in (IF rt_memory.is_set THEN Orders(rt_memory.as_set)
                 ELSE {rt_memory.as_list}) :
          /\ rt_memory' = PyList(l)
          /\ rt_file' = l
    /\ rt_pc' = "saved"
    /\ UNCHANGED <<crawlVars, clientVars, pageVars, saveVars, dlVars,
                   yarnVars, rt_set>>

\* load_checkpoint, lines 20-24, and find_projects_and_yarns, lines 232-236:
\* the list is read and turned into a set
RtLoad ==
    /\ rt_pc = "saved"
    /\ rt_memory' = PySet(ListToSet(rt_file))
    /\ rt_pc' = "loaded"
    /\ UNCHANGED <<crawlVars, clientVars, pageVars, saveVars, dlVars,
                   yarnVars, rt_set,
                   rt_file>>

\* collect_projects_for_pattern, lines 194-196: the value is made a set again
RtToSet ==
    /\ rt_pc \in {"saved", "loaded"}
    /\ ~rt_memory.is_set
    /\ rt_memory' = PySet(ListToSet(rt_memory.as_list))
    /\ UNCHANGED <<crawlVars, clientVars, pageVars, saveVars, dlVars,
                   yarnVars, rt_set,
                   rt_file, rt_pc>>

RoundTripInit ==
    /\ CrawlIdle
    /\ ClientIdle
    /\ PaginateIdle
    /\ SaveIdle
    /\ DownloadIdle
    /\ YarnIdle
    /\ rt_set \in SUBSET Keys
    /\ rt_memory = PySet(rt_set)
    /\ rt_file = <<>>
    /\ rt_pc = "fresh"

RoundTripNext ==
    \/ RtSave
    \/ RtLoad
    \/ RtToSet

RoundTripSpec == RoundTripInit /\ [][RoundTripNext]_vars

\* C28: for every set S of keys, membership in completed_projects answers
\* as membership in S before the save, after the save and after the reload;
\* the saved list holds exactly the members of S, and the reloaded value is
\* a set with exactly the members of S.
C28_RoundTrip ==
    /\ \A k \in Keys : Member(k, rt_memory) <=> k \in rt_set
    /\ rt_pc \in {"saved", "loaded"} => Range(rt_file) = rt_set
    /\ rt_pc = "loaded" => rt_memory = PySet(rt_set)

\* {Sweater_42, Sweater_43} saved in the order 43, 42 and loaded again
C28_Witness ==
    /\ rt_pc = "loaded"
    /\ rt_set = {"Sweater_42", "Sweater_43"}
    /\ rt_file = <<"Sweater_43", "Sweater_42">>
    /\ rt_memory = PySet({"Sweater_42", "Sweater_43"})

---------------------------------------------------------------------------
(* RavelryClient.download_pattern_projects, called with a checkpoint file   *)
(* A value of results is a list of Project objects ("objects", as          *)
(* search_projects yields them) or a list of dicts ("dicts", as json.loads *)
(* returns them); a key that is not in the dict maps to Missing.           *)

\* the pattern lists
PatternLists == { <<"a">>, <<"a", "b">>, <<"a", "b", "c">>, <<"a", "a">> }

\* the project lists: the projects 1..n, n in 0..MaxDlProjects
ProjectLists == {[i \in 1..n |-> i] : n \in 0..MaxDlProjects}

\* len(results)
LenResults(results) ==
    Cardinality({p \in DlPermalinks : results[p].kind # "missing"})

\* json.dumps accepts lists and dicts; a Project object makes it raise
\* TypeError
Serialisable(results) ==
    \A p \in DlPermalinks :
        results[p].kind = "objects" => results[p].items = <<>>

\* json.loads(json.dumps(results)): every list a list of dicts
AsJson(results) ==
    [p \in DlPermalinks |->
        IF results[p].kind = "missing" THEN Missing
        ELSE [kind |-> "dicts", items |-> results[p].items]]

\* the document _save_checkpoint is given
DlDocument(last, results) ==
    [last_pattern_idx |-> last, results |-> AsJson(results)]

\* -(-n // d), Python's ceiling division
CeilDiv(n, d) == -((-n) \div d)

\* lines 375-377: max_pages
DlMaxPages ==
    IF max_projects_per_pattern = None \/ max_projects_per_pattern = 0
    THEN None
    ELSE CeilDiv(max_projects_per_pattern, 100)

\* the server's page k of a listing, page_size items to a page
DlPage(listing, k) ==
    SubSeq(listing, (k - 1) * PAGE_SIZE + 1, Min(k * PAGE_SIZE, Len(listing)))

\* list(self.search_projects(..., max_pages=mp)): paginate, lines 186-210,
\* consumed to its end: the pages 1..total_pages, and page 1 in any case
SearchProjects(listing, mp) ==
    LET page_count == CeilDiv(Len(listing), PAGE_SIZE)
        total == IF mp # None /\ mp # 0 THEN Min(page_count, mp)
                 ELSE page_count
        last == IF mp # None /\ mp < 1 THEN 0 ELSE Max(1, total)
    IN  Flatten([k \in 1..last |-> DlPage(listing, k)])

\* lines 344-356: _load_checkpoint (which gives {} for a missing or
\* unreadable file), start_idx, results, and the early return
DlCall ==
    /\ dpc = "idle"
    /\ dl_calls < MaxDlCalls
    /\ dl_calls' = dl_calls + 1
    /\ LET loaded == IF dl_file.st = "ok" THEN dl_file.data
                     ELSE [last_pattern_idx |-> -1, results |-> NoResults]
           start_idx0 == loaded.last_pattern_idx + 1
       IN  /\ dl_idx' = start_idx0
           /\ dl_results' = loaded.results
           /\ IF start_idx0 >= Len(dl_patterns)
              THEN dpc' = "idle" /\ dl_returned' = TRUE
              ELSE dpc' = "fetch" /\ dl_returned' = FALSE
    /\ dl_fetched' = <<>>
    /\ dl_resumed' = dl_failed
    /\ dl_failed' = -1
    /\ UNCHANGED <<crawlVars, clientVars, pageVars, saveVars, rtVars, yarnVars,
                   dl_patterns, dl_listing, max_projects_per_pattern, dl_file>>

\* lines 368-386: the projects of the pattern are listed and stored in results
DlFetchOk ==
    /\ dpc = "fetch"
    /\ dl_idx < Len(dl_patterns)
    /\ LET permalink == dl_patterns[dl_idx + 1]
       IN  dl_results' = [dl_results EXCEPT ![permalink] =
                             [kind |-> "objects",
                              items |-> SearchProjects(dl_listing[permalink],
                                                       DlMaxPages)]]
    /\ dl_fetched' = Append(dl_fetched, dl_idx)
    /\ dpc' = "save"
    /\ UNCHANGED <<crawlVars, clientVars, pageVars, saveVars, rtVars, yarnVars,
                   dl_patterns, dl_listing, max_projects_per_pattern,
                   dl_file, dl_idx, dl_failed,
                   dl_resumed, dl_returned, dl_calls>>

\* lines 379-383, 397: search_projects raises
DlFetchFail ==
    /\ dpc = "fetch"
    /\ dl_idx < Len(dl_patterns)
    /\ dl_fetched' = Append(dl_fetched, dl_idx)
    /\ dpc' = "except"
    /\ UNCHANGED <<crawlVars, clientVars, pageVars, saveVars, rtVars, yarnVars,
                   dl_patterns, dl_listing, max_projects_per_pattern,
                   dl_file, dl_idx, dl_results,
                   dl_failed, dl_resumed, dl_returned, dl_calls>>

\* lines 390-395: the checkpoint is saved; when json.dumps raises in
\* _save_checkpoint the file is untouched and the handler of line 397 runs
DlSave ==
    /\ dpc = "save"
    /\ IF Serialisable(dl_results)
       THEN /\ dl_file' = Ok(DlDocument(dl_idx, dl_results))
            /\ dl_idx' = dl_idx + 1
            /\ dpc' = "fetch"
       ELSE /\ dpc' = "except"
            /\ UNCHANGED <<dl_file, dl_idx>>
    /\ UNCHANGED <<crawlVars, clientVars, pageVars, saveVars, rtVars, yarnVars,
                   dl_patterns, dl_listing, max_projects_per_pattern,
                   dl_results, dl_fetched, dl_failed,
                   dl_resumed, dl_returned, dl_calls>>

\* lines 397-404: the handler saves idx - 1 with results, and raises; when
\* this save raises too its error takes the place of the first one
DlExcept ==
    /\ dpc = "except"
    /\ dl_file' = IF Serialisable(dl_results)
                  THEN Ok(DlDocument(dl_idx - 1, dl_results))
                  ELSE dl_file
    /\ dl_failed' = dl_idx
    /\ dpc' = "finally_raise"
    /\ UNCHANGED <<crawlVars, clientVars, pageVars, saveVars, rtVars, yarnVars,
                   dl_patterns, dl_listing, max_projects_per_pattern,
                   dl_idx, dl_results, dl_fetched,
                   dl_resumed, dl_returned, dl_calls>>

\* the for loop of line 368 is exhausted
DlLoopEnd ==
    /\ dpc = "fetch"
    /\ dl_idx >= Len(dl_patterns)
    /\ dpc' = "finally_return"
    /\ UNCHANGED <<crawlVars, clientVars, pageVars, saveVars, rtVars, yarnVars,
                   dl_patterns, dl_listing, max_projects_per_pattern,
                   dl_file, dl_idx, dl_results,
                   dl_fetched, dl_failed, dl_resumed, dl_returned, dl_calls>>

\* lines 406-418: the checkpoint file is unlinked when results has as many
\* keys as there are patterns (an unlink error is logged); then the call
\* returns results, or the exception propagates
DlFinally ==
    /\ dpc \in {"finally_raise", "finally_return"}
    /\ dl_file' = IF LenResults(dl_results) = Len(dl_patterns)
                  THEN Absent(0) ELSE dl_file
    /\ dl_returned' = (dpc = "finally_return")
    /\ dpc' = "idle"
    /\ UNCHANGED <<crawlVars, clientVars, pageVars, saveVars, rtVars, yarnVars,
                   dl_patterns, dl_listing, max_projects_per_pattern,
                   dl_idx, dl_results, dl_fetched,
                   dl_failed, dl_resumed, dl_calls>>

DownloadInit ==
    /\ CrawlIdle
    /\ ClientIdle
    /\ PaginateIdle
    /\ SaveIdle
    /\ RoundTripIdle
    /\ YarnIdle
    /\ dl_patterns \in PatternLists
    /\ dl_listing \in [DlPermalinks -> ProjectLists]
    /\ max_projects_per_pattern \in {None} \cup 0..MaxMaxProjects
    /\ dl_file = Absent(0)
    /\ dpc = "idle"
    /\ dl_idx = 0
    /\ dl_results = NoResults
    /\ dl_fetched = <<>>
    /\ dl_failed = -1
    /\ dl_resumed = -1
    /\ dl_returned = FALSE
    /\ dl_calls = 0

DownloadNext ==
    \/ DlCall
    \/ DlFetchOk
    \/ DlFetchFail
    \/ DlSave
    \/ DlExcept
    \/ DlLoopEnd
    \/ DlFinally

DownloadSpec == DownloadInit /\ [][DownloadNext]_vars

\* the results of the patterns at the indexes 0..i-1, as a JSON document
ResultsUpTo(i) ==
    [p \in DlPermalinks |->
        IF \E j \in 1..i : dl_patterns[j] = p
        THEN [kind |-> "dicts", items |-> dl_listing[p]]
        ELSE Missing]

\* C30 (as claimed): after a call that failed at index i the checkpoint file
\* holds last_pattern_idx = i-1 with the results of the patterns 0..i-1; a
\* later call that returns has fetched the patterns i..end only, and its
\* results hold the projects of every pattern.
C30_DownloadResumes ==
    /\ (dpc = "idle" /\ dl_failed >= 0) =>
           dl_file = Ok([last_pattern_idx |-> dl_failed - 1,
                         results |-> ResultsUpTo(dl_failed)])
    /\ (dpc = "idle" /\ dl_returned /\ dl_resumed >= 0) =>
           /\ dl_fetched = [k \in 1..(Len(dl_patterns) - dl_resumed)
                               |-> dl_resumed + k - 1]
           /\ \A j \in 1..Len(dl_patterns) :
                 /\ dl_results[dl_patterns[j]].kind # "missing"
                 /\ dl_results[dl_patterns[j]].items = dl_listing[dl_patterns[j]]

\* C38 (as claimed): after a call that returned, with results for every
\* pattern of the list, the checkpoint file does not exist; after a call that
\* failed on some pattern it exists.
C38_CheckpointRemoved ==
    (dpc = "idle" /\ dl_calls > 0) =>
        /\ (/\ dl_returned
            /\ \A j \in 1..Len(dl_patterns) :
                  dl_results[dl_patterns[j]].kind # "missing")
               => dl_file.st = "absent"
        /\ dl_failed >= 0 => dl_file.st # "absent"

\* C31 (as claimed): with max_projects_per_pattern = n >= 1, results holds
\* at most n projects for each pattern.
C31_MaxProjectsBound ==
    (max_projects_per_pattern # None /\ max_projects_per_pattern >= 1) =>
        \A p \in DlPermalinks :
            dl_results[p].kind # "missing" =>
                Len(dl_results[p].items) <= max_projects_per_pattern

---------------------------------------------------------------------------
(* collect_yarn_data, lines 74-92: the loop over the packs of a project     *)
(* A pack is [id, yarn_id, yarn_name, yarn]; id and yarn_id are None or a    *)
(* number, yarn is absent (none) or an object with a permalink.              *)

NoYarn == [none |-> TRUE, permalink |-> "None"]

Packs ==
    [id : {None} \cup 1..MaxPackId,
     yarn_id : {None, 5},
     yarn_name : {"Merino"},
     yarn : {NoYarn, [none |-> FALSE, permalink |-> "merino"]}]

PackLists == UNION {[1..n -> Packs] : n \in 0..MaxPacks}

\* lines 85-90: the dict appended for a pack
PackRecord(pack) ==
    [package_id |-> pack.id,
     yarn_id |-> pack.yarn_id,
     yarn_name |-> pack.yarn_name,
     yarn_permalink |-> IF pack.yarn.none THEN "None" ELSE pack.yarn.permalink]

\* lines 70-80: the detail is fetched, 'yarn_data' starts empty
YarnCall ==
    /\ ypc = "idle"
    /\ yarn_data' = <<>>
    /\ pack_i' = 1
    /\ ypc' = "loop"
    /\ UNCHANGED <<crawlVars, clientVars, pageVars, saveVars, rtVars, dlVars,
                   packs>>

\* a loop that ends at the first pack with a null id
YarnNullBreak ==
    /\ ypc = "loop"
    /\ pack_i <= Len(packs)
    /\ packs[pack_i].id = None
    /\ pack_i' = Len(packs) + 1
    /\ UNCHANGED <<crawlVars, clientVars, pageVars, saveVars, rtVars, dlVars,
                   packs, yarn_data, ypc>>

\* lines 82-84: a pack with a null id: continue
YarnNull ==
    /\ ypc = "loop"
    /\ pack_i <= Len(packs)
    /\ packs[pack_i].id = None
    /\ pack_i' = pack_i + 1
    /\ UNCHANGED <<crawlVars, clientVars, pageVars, saveVars, rtVars, dlVars,
                   packs, yarn_data, ypc>>

\* lines 82-90: a pack with an id is appended
YarnAppend ==
    /\ ypc = "loop"
    /\ pack_i <= Len(packs)
    /\ packs[pack_i].id # None
    /\ yarn_data' = Append(yarn_data, PackRecord(packs[pack_i]))
    /\ pack_i' = pack_i + 1
    /\ UNCHANGED <<crawlVars, clientVars, pageVars, saveVars, rtVars, dlVars,
                   packs, ypc>>

\* line 92
YarnReturn ==
    /\ ypc = "loop"
    /\ pack_i > Len(packs)
    /\ ypc' = "returned"
    /\ UNCHANGED <<crawlVars, clientVars, pageVars, saveVars, rtVars, dlVars,
                   packs, yarn_data, pack_i>>

YarnInit ==
    /\ CrawlIdle
    /\ ClientIdle
    /\ PaginateIdle
    /\ SaveIdle
    /\ RoundTripIdle
    /\ DownloadIdle
    /\ packs \in PackLists
    /\ yarn_data = <<>>
    /\ pack_i = 1
    /\ ypc = "idle"

YarnNext ==
    \/ YarnCall
    \/ YarnNull
    \/ YarnAppend
    \/ YarnReturn

YarnSpec == YarnInit /\ [][YarnNext]_vars

\* the packs of a list whose id is not null, in the order of the list
RECURSIVE WithId(_)
WithId(list) ==
    IF list = <<>> THEN <<>>
    ELSE IF Head(list).id = None THEN WithId(Tail(list))
    ELSE <<Head(list)>> \o WithId(Tail(list))

\* C33: for every list of packs, the yarn_data collect_yarn_data returns holds
\* one record per pack with a non-null id, in the order of the packs, and
\* nothing else; a pack with a null id does not keep later packs out.
C33_NullPacksOmitted ==
    ypc = "returned" =>
        /\ Len(yarn_data) = Len(WithId(packs))
        /\ \A k \in 1..Len(yarn_data) :
              yarn_data[k] = PackRecord(WithId(packs)[k])
        /\ \A k \in 1..Len(yarn_data) : yarn_data[k].package_id # None

\* a pack with a null id between two packs with the ids 1 and 2
C33_Witness ==
    /\ ypc = "returned"
    /\ Len(packs) = 3
    /\ packs[1].id = 1 /\ packs[2].id = None /\ packs[3].id = 2
    /\ Len(yarn_data) = 2
    /\ yarn_data[1].package_id = 1 /\ yarn_data[2].package_id = 2

=============================================================================
